---- MODULE Spec2Model ----
(***************************************************************************)
(* Model of src/native/audio-capture.cpp: the process-exclusive WASAPI     *)
(* loopback capture tool.  The control thread runs wmain; the platform     *)
(* worker runs CompletionHandler::ActivateCompleted; the console control   *)
(* handler CtrlHandler clears g_running asynchronously.                    *)
(***************************************************************************)
EXTENDS Integers, Sequences, FiniteSets, TLC

(***************************************************************************)
(* Bounds of the model.                                                    *)
(***************************************************************************)
\* number of buffers the endpoint hands out in one run
MaxBuffers == 3

\* frame counts the endpoint reports for a buffer
FrameCounts == {0, 2, 1366}

(***************************************************************************)
(* Program and platform constants.                                         *)
(***************************************************************************)
S_OK == 0
AUDCLNT_S_BUFFER_EMPTY == 143196161
E_FAIL == -2147467259
E_NOTIMPL == -2147467263
WAVE_FORMAT_PCM == 1
WAVE_FORMAT_IEEE_FLOAT == 3
WAVE_FORMAT_EXTENSIBLE == 65534
ZerosSize == 8192
HeaderSize == 12

FAILED(h) == h < 0

(***************************************************************************)
(* Format negotiation (wmain, lines 279-322).                              *)
(***************************************************************************)
WaveFormat(tag, ch, rate, bits, align, avg, valid, sub) ==
    [wFormatTag |-> tag, nChannels |-> ch, nSamplesPerSec |-> rate,
     wBitsPerSample |-> bits, nBlockAlign |-> align, nAvgBytesPerSec |-> avg,
     wValidBitsPerSample |-> valid, SubFormatData1 |-> sub]

NoFormat == WaveFormat(0, 0, 0, 0, 0, 0, 0, 0)

\* the formats GetMixFormat hands back when it succeeds
MixFormats ==
    { WaveFormat(WAVE_FORMAT_IEEE_FLOAT, 2, 48000, 32, 8, 384000, 0, 0),
      WaveFormat(WAVE_FORMAT_EXTENSIBLE, 2, 48000, 32, 8, 384000, 32, 3),
      WaveFormat(WAVE_FORMAT_PCM, 2, 44100, 16, 4, 176400, 0, 0),
      WaveFormat(WAVE_FORMAT_EXTENSIBLE, 6, 48000, 32, 24, 1152000, 32, 3),
      WaveFormat(WAVE_FORMAT_EXTENSIBLE, 2, 48000, 32, 8, 384000, 24, 1) }

\* the fallback with Samples.wValidBitsPerSample left at its zero initialisation
fallbackFmt_NoValidBits ==
    WaveFormat(WAVE_FORMAT_EXTENSIBLE, 2, 48000, 32, 8, 384000, 0, 3)

fallbackFmt ==
    LET align == 2 * (32 \div 8)
    IN  WaveFormat(WAVE_FORMAT_EXTENSIBLE, 2, 48000, 32, align, 48000 * align, 32, 3)

\* line 288
UseFallback(h) == FAILED(h)

\* lines 310-320: the header fields, with the extensible format unwrapped
HeaderOf(wf) ==
    IF wf.wFormatTag = WAVE_FORMAT_EXTENSIBLE
    THEN [sampleRate |-> wf.nSamplesPerSec, channels |-> wf.nChannels,
          bitsPerSample |-> wf.wValidBitsPerSample, formatTag |-> wf.SubFormatData1]
    ELSE [sampleRate |-> wf.nSamplesPerSec, channels |-> wf.nChannels,
          bitsPerSample |-> wf.wBitsPerSample, formatTag |-> wf.wFormatTag]

NoHeader == [sampleRate |-> 0, channels |-> 0, bitsPerSample |-> 0, formatTag |-> 0]

\* a frame size counted in bits instead of bytes
FrameSizeOf_InBits(ch, bits) == ch * bits

\* line 322 (UINT32 arithmetic; the values of the model stay far below 2^32)
FrameSizeOf(ch, bits) == ch * (bits \div 8)

(***************************************************************************)
(* Activation (CompletionHandler::Wait, lines 164-176; wmain 254-273).     *)
(***************************************************************************)
\* the HRESULT Wait returns, given the callback's fields and the QueryInterface result
WaitResult(hrAct, pAct, qi) ==
    IF FAILED(hrAct) \/ ~pAct
    THEN (IF FAILED(hrAct) THEN hrAct ELSE E_FAIL)
    ELSE qi

\* whether Wait reaches its QueryInterface call
WaitQueries(hrAct, pAct) == ~(FAILED(hrAct) \/ ~pAct)

\* line 269 without the null check of audioClient
ClientMissing_HrOnly(h, client) == FAILED(h)

\* line 269
ClientMissing(h, client) == FAILED(h) \/ ~client

(***************************************************************************)
(* Data channel (lines 382, 431-434, 438-442) and drain (lines 407, 418).  *)
(***************************************************************************)
\* values _write can return for a request of n bytes
WriteResults(n) == {-1, 0, n} \cup (IF n > 1 THEN {n \div 2} ELSE {})

Accepted(w) == IF w > 0 THEN w ELSE 0

\* a header check that lets a short write through
HeaderWriteFailed_Lenient(w) == w <= 0

HeaderWriteFailed(w) == w # HeaderSize

WriteBroken(w) == w <= 0

Chunk(rem) == IF rem > ZerosSize THEN ZerosSize ELSE rem

\* a capture loop that never looks at the flag
LoopCondition_Always(running) == TRUE

LoopCondition(running) == running

\* a drain that takes AUDCLNT_S_BUFFER_EMPTY for a buffer
BufferUnavailable_ErrorsOnly(h) == FAILED(h)

BufferUnavailable(h) == h = AUDCLNT_S_BUFFER_EMPTY \/ FAILED(h)

VARIABLES
    pc,             \* position of the control thread in wmain
    exitCode,       \* value returned by wmain (-1 while running)
    failStage,      \* the setup step that failed, "none" otherwise
    g_running,      \* the shutdown flag
    hrAsync,        \* hr returned by ActivateAudioInterfaceAsync
    cbPc,           \* position of the platform worker in ActivateCompleted
    m_event,        \* CompletionHandler::m_event is signalled
    m_hrActivate,   \* CompletionHandler::m_hrActivate
    m_pActivated,   \* CompletionHandler::m_pActivated is non-null
    hrQI,           \* hr returned by QueryInterface(IAudioClient)
    hrWait,         \* hr returned by handler->Wait
    audioClient,    \* audioClient is non-null
    mixHr,          \* hr returned by GetMixFormat
    waveFormat,     \* *waveFormat
    usingFallback,
    header,         \* sampleRate, channels, bitsPerSample, formatTag
    frameSize,
    calls,          \* number of calls made per endpoint method
    startOk,        \* Start returned success
    loopEntered,    \* the capture loop's condition was evaluated
    headerWrites,   \* number of _write calls for the header
    hdrBytes,       \* bytes of the header accepted by the data channel
    firstWrite,     \* kind of the first _write call of the run
    sampleBytes,    \* bytes accepted by the data channel after the header
    writeFailed,    \* a capture-loop _write returned <= 0
    shortWrite,     \* a capture-loop _write accepted fewer bytes than requested
    numAcquired,    \* buffers handed out by the endpoint so far
    outstanding,    \* buffers acquired and not yet released
    numFrames,
    silent,         \* flags & AUDCLNT_BUFFERFLAGS_SILENT
    byteCount,
    remaining,
    bufEmitted,     \* bytes accepted by the data channel for the current buffer
    setEvents,      \* number of SetEvent(m_event) calls made by the callback
    acquired,       \* per handle: how many times it was obtained
    released,       \* per handle: how many times it was released or closed
    teardown,       \* the cleanup operations performed so far, in order
    waitResult,     \* what the last WaitForSingleObject(captureEvent) returned
    signalled,      \* CtrlHandler has run
    getBufferCalled \* captureClient->GetBuffer has been called

vars == <<pc, exitCode, failStage, g_running, hrAsync, cbPc, m_event,
          m_hrActivate, m_pActivated, hrQI, hrWait, audioClient, mixHr,
          waveFormat, usingFallback, header, frameSize, calls, startOk,
          loopEntered, headerWrites, hdrBytes, firstWrite, sampleBytes,
          writeFailed, shortWrite, numAcquired, outstanding, numFrames,
          silent, byteCount, remaining, bufEmitted, setEvents, acquired,
          released, teardown, waitResult, signalled, getBufferCalled>>

exitVars == <<exitCode, failStage>>
activationVars == <<hrAsync, cbPc, m_event, m_hrActivate, m_pActivated, hrQI,
                    hrWait, audioClient>>
formatVars == <<mixHr, waveFormat, usingFallback, header, frameSize>>
sessionVars == <<calls, startOk, loopEntered>>
outputVars == <<headerWrites, hdrBytes, firstWrite, sampleBytes, writeFailed,
                shortWrite>>
bufferVars == <<numAcquired, outstanding, numFrames, silent, byteCount,
                remaining, bufEmitted>>
handleVars == <<acquired, released>>
loopVars == <<waitResult, getBufferCalled>>

CallNames == {"GetMixFormat", "Initialize", "SetEventHandle", "GetService",
              "Start", "Stop"}

Called(name) == [calls EXCEPT ![name] = @ + 1]

\* the handles wmain owns: handler (243), asyncOp (244), audioClient (264),
\* captureEvent (352), captureClient (361)
Handles == {"handler", "asyncOp", "audioClient", "captureEvent",
            "captureClient"}

Acquire(hs) == [h \in Handles |-> acquired[h] + (IF h \in hs THEN 1 ELSE 0)]

Release(hs) == [h \in Handles |-> released[h] + (IF h \in hs THEN 1 ELSE 0)]

\* a getservice failure path that forgets CloseHandle(captureEvent)
ReleasedOnFail_LeakEvent(stage) ==
    CASE stage = "activate" -> {"handler"}
      [] stage = "initialize" -> {"audioClient"}
      [] stage = "seteventhandle" -> {"audioClient", "captureEvent"}
      [] stage = "getservice" -> {"audioClient"}
      [] stage \in {"header", "start"} ->
           {"captureClient", "audioClient", "captureEvent"}
      [] OTHER -> {}

\* what each failure path releases before return 1: lines 258, 346, 356-357,
\* 369-370, 384-386, 395-397
ReleasedOnFail(stage) ==
    CASE stage = "activate" -> {"handler"}
      [] stage = "initialize" -> {"audioClient"}
      [] stage = "seteventhandle" -> {"audioClient", "captureEvent"}
      [] stage = "getservice" -> {"audioClient", "captureEvent"}
      [] stage \in {"header", "start"} ->
           {"captureClient", "audioClient", "captureEvent"}
      [] OTHER -> {}

\* a cleanup that releases the capture interface before stopping the endpoint
CleanupOrder_ReleaseFirst ==
    <<"captureClient", "Stop", "audioClient", "captureEvent">>

\* a cleanup that never stops the endpoint
CleanupOrder_NoStop == <<"captureClient", "audioClient", "captureEvent">>

\* lines 453-456: audioClient->Stop(), captureClient->Release(),
\* audioClient->Release(), CloseHandle(captureEvent)
CleanupOrder == <<"Stop", "captureClient", "audioClient", "captureEvent">>

Init ==
    /\ pc = "start"
    /\ exitCode = -1
    /\ failStage = "none"
    /\ g_running = TRUE
    /\ hrAsync = S_OK
    /\ cbPc = "idle"
    /\ m_event = FALSE
    /\ m_hrActivate = E_FAIL
    /\ m_pActivated = FALSE
    /\ hrQI = S_OK
    /\ hrWait = S_OK
    /\ audioClient = FALSE
    /\ mixHr = S_OK
    /\ waveFormat = NoFormat
    /\ usingFallback = FALSE
    /\ header = NoHeader
    /\ frameSize = 0
    /\ calls = [n \in CallNames |-> 0]
    /\ startOk = FALSE
    /\ loopEntered = FALSE
    /\ headerWrites = 0
    /\ hdrBytes = 0
    /\ firstWrite = "none"
    /\ sampleBytes = 0
    /\ writeFailed = FALSE
    /\ shortWrite = FALSE
    /\ numAcquired = 0
    /\ outstanding = 0
    /\ numFrames = 0
    /\ silent = FALSE
    /\ byteCount = 0
    /\ remaining = 0
    /\ bufEmitted = 0
    /\ setEvents = 0
    /\ acquired = [h \in Handles |-> 0]
    /\ released = [h \in Handles |-> 0]
    /\ teardown = <<>>
    /\ waitResult = "none"
    /\ signalled = FALSE
    /\ getBufferCalled = FALSE

\* a setup failure that returns 0
SetupFail_ReturnsZero(stage) ==
    /\ pc' = "exited"
    /\ exitCode' = 0
    /\ failStage' = stage

\* a setup failure: return 1
SetupFail(stage) ==
    /\ pc' = "exited"
    /\ exitCode' = 1
    /\ failStage' = stage

\* a setup step that succeeded: fall through to the next one
Proceed(next) ==
    /\ pc' = next
    /\ UNCHANGED exitVars

(***************************************************************************)
(* wmain, lines 209-228: arguments and COM initialisation.                 *)
(***************************************************************************)
CheckArgs ==
    /\ pc = "start"
    /\ \E argc \in {1, 2} :
         IF argc < 2 THEN SetupFail("usage") ELSE Proceed("coinit")
    /\ UNCHANGED <<g_running, activationVars, formatVars, sessionVars,
                   outputVars, bufferVars, setEvents, handleVars, teardown,
                   loopVars, signalled>>

CoInit ==
    /\ pc = "coinit"
    /\ \E h \in {S_OK, E_FAIL} :
         IF FAILED(h) THEN SetupFail("coinit") ELSE Proceed("activate")
    /\ UNCHANGED <<g_running, activationVars, formatVars, sessionVars,
                   outputVars, bufferVars, setEvents, handleVars, teardown,
                   loopVars, signalled>>

(***************************************************************************)
(* CtrlHandler, lines 185-188; registered at line 221.                     *)
(***************************************************************************)
\* a handler that flips the flag on every control signal
CtrlHandler_Toggle ==
    /\ pc \notin {"start", "exited"}
    /\ g_running' = ~g_running
    /\ signalled' = TRUE
    /\ UNCHANGED <<pc, exitVars, activationVars, formatVars, sessionVars,
                   outputVars, bufferVars, setEvents, handleVars, teardown,
                   loopVars>>

CtrlHandler ==
    /\ pc \notin {"start", "exited"}
    /\ g_running = TRUE
    /\ g_running' = FALSE
    /\ signalled' = TRUE
    /\ UNCHANGED <<pc, exitVars, activationVars, formatVars, sessionVars,
                   outputVars, bufferVars, setEvents, handleVars, teardown,
                   loopVars>>

(***************************************************************************)
(* Activation, lines 243-273, and the completion callback, lines 155-161.  *)
(***************************************************************************)
Activate ==
    /\ pc = "activate"
    /\ \E h \in {S_OK, E_FAIL} :
         /\ hrAsync' = h
         /\ IF FAILED(h)
            THEN /\ SetupFail("activate")
                 /\ acquired' = Acquire({"handler"})
                 /\ released' = Release(ReleasedOnFail("activate"))
                 /\ UNCHANGED cbPc
            ELSE /\ Proceed("wait")
                 /\ acquired' = Acquire({"handler", "asyncOp"})
                 /\ UNCHANGED released
                 /\ cbPc' = "pending"
    /\ UNCHANGED <<g_running, m_event, m_hrActivate, m_pActivated, hrQI,
                   hrWait, audioClient, formatVars, sessionVars, outputVars,
                   bufferVars, setEvents, teardown, loopVars, signalled>>

\* op->GetActivateResult(&m_hrActivate, &m_pActivated)
ActivateCompleted_Store ==
    /\ cbPc = "pending"
    /\ \E h \in {S_OK, E_FAIL}, p \in BOOLEAN :
         /\ (FAILED(h) => ~p)
         /\ m_hrActivate' = h
         /\ m_pActivated' = p
    /\ cbPc' = "stored"
    /\ UNCHANGED <<pc, exitVars, g_running, hrAsync, m_event, hrQI, hrWait,
                   audioClient, formatVars, sessionVars, outputVars,
                   bufferVars, setEvents, handleVars, teardown, loopVars,
                   signalled>>

\* SetEvent(m_event)
ActivateCompleted_Signal ==
    /\ cbPc = "stored"
    /\ m_event' = TRUE
    /\ setEvents' = setEvents + 1
    /\ cbPc' = "done"
    /\ UNCHANGED <<pc, exitVars, g_running, hrAsync, m_hrActivate,
                   m_pActivated, hrQI, hrWait, audioClient, formatVars,
                   sessionVars, outputVars, bufferVars, handleVars, teardown,
                   loopVars, signalled>>

\* a wait that returns whether or not the event was signalled
WaitReturns_NoWait(ev) == TRUE

\* line 165: an INFINITE wait returns only once the event is signalled
WaitReturns(ev) == ev = TRUE

\* WaitForSingleObject(m_event, INFINITE) on the auto-reset event
Wait_Wake ==
    /\ pc = "wait"
    /\ WaitReturns(m_event)
    /\ m_event' = FALSE
    /\ pc' = "waitRead"
    /\ UNCHANGED <<exitVars, g_running, hrAsync, cbPc, m_hrActivate,
                   m_pActivated, hrQI, hrWait, audioClient, formatVars,
                   sessionVars, outputVars, bufferVars, setEvents, handleVars,
                   teardown, loopVars, signalled>>

\* lines 266-267: handler->Release(); if (asyncOp) asyncOp->Release();
AfterWaitReleased ==
    {"handler"} \cup (IF acquired["asyncOp"] > 0 THEN {"asyncOp"} ELSE {})

\* the rest of Wait (lines 166-175) and lines 266-273
Wait_Read ==
    /\ pc = "waitRead"
    /\ \E qi \in {S_OK, E_FAIL}, ptr \in BOOLEAN :
         /\ (FAILED(qi) => ~ptr)
         /\ LET queried == WaitQueries(m_hrActivate, m_pActivated)
                h == WaitResult(m_hrActivate, m_pActivated, qi)
                client == queried /\ ptr
            IN  /\ (~queried => qi = S_OK /\ ~ptr)
                /\ hrQI' = qi
                /\ hrWait' = h
                /\ audioClient' = client
                /\ acquired' = Acquire(IF client THEN {"audioClient"} ELSE {})
                /\ IF ClientMissing(h, client)
                   THEN /\ SetupFail("activation")
                        /\ released' = Release(AfterWaitReleased
                                               \cup ReleasedOnFail("activation"))
                   ELSE /\ Proceed("getmix")
                        /\ released' = Release(AfterWaitReleased)
    /\ UNCHANGED <<g_running, hrAsync, cbPc, m_event, m_hrActivate,
                   m_pActivated, formatVars, sessionVars, outputVars,
                   bufferVars, setEvents, teardown, loopVars, signalled>>

(***************************************************************************)
(* Format negotiation, lines 279-322.                                      *)
(***************************************************************************)
GetMixFormat ==
    /\ pc = "getmix"
    /\ \E h \in {S_OK, E_NOTIMPL, E_FAIL} :
       \E queried \in (IF FAILED(h) THEN {NoFormat} ELSE MixFormats) :
         LET fb == UseFallback(h)
             wf == IF fb THEN fallbackFmt ELSE queried
             hd == HeaderOf(wf)
         IN  /\ mixHr' = h
             /\ waveFormat' = wf
             /\ usingFallback' = fb
             /\ header' = hd
             /\ frameSize' = FrameSizeOf(hd.channels, hd.bitsPerSample)
    /\ calls' = Called("GetMixFormat")
    /\ pc' = "initialize"
    /\ UNCHANGED <<exitVars, g_running, activationVars, startOk, loopEntered,
                   outputVars, bufferVars, setEvents, handleVars, teardown,
                   loopVars, signalled>>

(***************************************************************************)
(* Session initialisation, lines 333-373.                                  *)
(***************************************************************************)
Initialize ==
    /\ pc = "initialize"
    /\ calls' = Called("Initialize")
    /\ \E h \in {S_OK, E_FAIL} :
         IF FAILED(h)
         THEN /\ SetupFail("initialize")
              /\ released' = Release(ReleasedOnFail("initialize"))
         ELSE /\ Proceed("seteventhandle")
              /\ UNCHANGED released
    /\ UNCHANGED <<g_running, activationVars, formatVars, startOk, loopEntered,
                   outputVars, bufferVars, setEvents, acquired, teardown,
                   loopVars, signalled>>

SetEventHandle ==
    /\ pc = "seteventhandle"
    /\ calls' = Called("SetEventHandle")
    /\ acquired' = Acquire({"captureEvent"})
    /\ \E h \in {S_OK, E_FAIL} :
         IF FAILED(h)
         THEN /\ SetupFail("seteventhandle")
              /\ released' = Release(ReleasedOnFail("seteventhandle"))
         ELSE /\ Proceed("getservice")
              /\ UNCHANGED released
    /\ UNCHANGED <<g_running, activationVars, formatVars, startOk, loopEntered,
                   outputVars, bufferVars, setEvents, teardown, loopVars,
                   signalled>>

GetService ==
    /\ pc = "getservice"
    /\ calls' = Called("GetService")
    /\ \E h \in {S_OK, E_FAIL} :
         IF FAILED(h)
         THEN /\ SetupFail("getservice")
              /\ released' = Release(ReleasedOnFail("getservice"))
              /\ UNCHANGED acquired
         ELSE /\ Proceed("header")
              /\ acquired' = Acquire({"captureClient"})
              /\ UNCHANGED released
    /\ UNCHANGED <<g_running, activationVars, formatVars, startOk, loopEntered,
                   outputVars, bufferVars, setEvents, teardown, loopVars,
                   signalled>>

(***************************************************************************)
(* Header and Start, lines 375-400.                                        *)
(***************************************************************************)
FirstWriteIs(kind) == IF firstWrite = "none" THEN kind ELSE firstWrite

WriteHeader ==
    /\ pc = "header"
    /\ \E w \in WriteResults(HeaderSize) :
         /\ headerWrites' = headerWrites + 1
         /\ hdrBytes' = hdrBytes + Accepted(w)
         /\ firstWrite' = FirstWriteIs("header")
         /\ IF HeaderWriteFailed(w)
            THEN /\ SetupFail("header")
                 /\ released' = Release(ReleasedOnFail("header"))
            ELSE /\ Proceed("startcap")
                 /\ UNCHANGED released
    /\ UNCHANGED <<g_running, activationVars, formatVars, sessionVars,
                   sampleBytes, writeFailed, shortWrite, bufferVars, setEvents,
                   acquired, teardown, loopVars, signalled>>

Start ==
    /\ pc = "startcap"
    /\ calls' = Called("Start")
    /\ \E h \in {S_OK, E_FAIL} :
         IF FAILED(h)
         THEN /\ SetupFail("start")
              /\ released' = Release(ReleasedOnFail("start"))
              /\ UNCHANGED startOk
         ELSE /\ Proceed("loop")
              /\ startOk' = TRUE
              /\ UNCHANGED released
    /\ UNCHANGED <<g_running, activationVars, formatVars, loopEntered,
                   outputVars, bufferVars, setEvents, acquired, teardown,
                   loopVars, signalled>>

(***************************************************************************)
(* Capture loop, lines 407-449.                                            *)
(***************************************************************************)
\* while (g_running)
LoopTest ==
    /\ pc = "loop"
    /\ loopEntered' = TRUE
    /\ pc' = IF LoopCondition(g_running) THEN "waitev" ELSE "cleanup"
    /\ UNCHANGED <<exitVars, g_running, activationVars, formatVars, calls,
                   startOk, outputVars, bufferVars, setEvents, handleVars,
                   teardown, loopVars, signalled>>

\* a loop body that drains whatever the wait returned
Drains_Always(r) == TRUE

\* line 410: if (waitResult == WAIT_OBJECT_0)
Drains(r) == r = "WAIT_OBJECT_0"

\* WaitForSingleObject(captureEvent, 100)
WaitEvent ==
    /\ pc = "waitev"
    /\ \E r \in {"WAIT_OBJECT_0", "WAIT_TIMEOUT"} :
         /\ waitResult' = r
         /\ pc' = IF Drains(r) THEN "getbuffer" ELSE "loop"
    /\ UNCHANGED <<exitVars, g_running, activationVars, formatVars,
                   sessionVars, outputVars, bufferVars, setEvents, handleVars,
                   teardown, getBufferCalled, signalled>>

\* captureClient->GetBuffer and lines 418-424, 429
GetBuffer ==
    /\ pc = "getbuffer"
    /\ \E h \in {S_OK, AUDCLNT_S_BUFFER_EMPTY, E_FAIL}, n \in FrameCounts,
          s \in BOOLEAN :
         /\ (h = S_OK => numAcquired < MaxBuffers)
         /\ (h # S_OK => n = 0 /\ ~s)
         /\ numAcquired' = numAcquired + (IF h = S_OK THEN 1 ELSE 0)
         /\ outstanding' = outstanding + (IF h = S_OK THEN 1 ELSE 0)
         /\ numFrames' = n
         /\ silent' = s
         /\ IF BufferUnavailable(h)
            THEN /\ pc' = "loop"
                 /\ UNCHANGED <<byteCount, remaining, bufEmitted>>
            ELSE IF n = 0
            THEN /\ pc' = "releaseZero"
                 /\ UNCHANGED <<byteCount, remaining, bufEmitted>>
            ELSE /\ byteCount' = n * frameSize
                 /\ remaining' = IF s THEN n * frameSize ELSE remaining
                 /\ bufEmitted' = 0
                 /\ pc' = IF s THEN "silent" ELSE "pcm"
    /\ getBufferCalled' = TRUE
    /\ UNCHANGED <<exitVars, g_running, activationVars, formatVars,
                   sessionVars, outputVars, setEvents, handleVars, teardown,
                   waitResult, signalled>>

\* lines 419-422: ReleaseBuffer on the zero-frame early exit
ReleaseZero ==
    /\ pc = "releaseZero"
    /\ outstanding' = outstanding - 1
    /\ pc' = "loop"
    /\ UNCHANGED <<exitVars, g_running, activationVars, formatVars,
                   sessionVars, outputVars, numAcquired, numFrames, silent,
                   byteCount, remaining, bufEmitted, setEvents, handleVars,
                   teardown, loopVars, signalled>>

\* lines 430-435: one iteration of the zero-fill loop
SilentChunk ==
    /\ pc = "silent"
    /\ remaining > 0 /\ g_running
    /\ LET chunk == Chunk(remaining)
       IN  \E w \in WriteResults(chunk) :
             /\ firstWrite' = FirstWriteIs("sample")
             /\ sampleBytes' = sampleBytes + Accepted(w)
             /\ bufEmitted' = bufEmitted + Accepted(w)
             /\ shortWrite' = (shortWrite \/ (w > 0 /\ w < chunk))
             /\ IF WriteBroken(w)
                THEN /\ g_running' = FALSE
                     /\ writeFailed' = TRUE
                     /\ pc' = "release"
                     /\ UNCHANGED remaining
                ELSE /\ remaining' = remaining - chunk
                     /\ pc' = "silent"
                     /\ UNCHANGED <<g_running, writeFailed>>
    /\ UNCHANGED <<exitVars, activationVars, formatVars, sessionVars,
                   headerWrites, hdrBytes, numAcquired, outstanding, numFrames,
                   silent, byteCount, setEvents, handleVars, teardown,
                   loopVars, signalled>>

\* line 430: the zero-fill loop's condition is false
SilentDone ==
    /\ pc = "silent"
    /\ ~(remaining > 0 /\ g_running)
    /\ pc' = "release"
    /\ UNCHANGED <<exitVars, g_running, activationVars, formatVars,
                   sessionVars, outputVars, bufferVars, setEvents, handleVars,
                   teardown, loopVars, signalled>>

\* lines 437-442
WritePcm ==
    /\ pc = "pcm"
    /\ \E w \in WriteResults(byteCount) :
         /\ firstWrite' = FirstWriteIs("sample")
         /\ sampleBytes' = sampleBytes + Accepted(w)
         /\ bufEmitted' = bufEmitted + Accepted(w)
         /\ shortWrite' = (shortWrite \/ (w > 0 /\ w < byteCount))
         /\ IF WriteBroken(w)
            THEN g_running' = FALSE /\ writeFailed' = TRUE
            ELSE UNCHANGED <<g_running, writeFailed>>
    /\ pc' = "release"
    /\ UNCHANGED <<exitVars, activationVars, formatVars, sessionVars,
                   headerWrites, hdrBytes, numAcquired, outstanding, numFrames,
                   silent, byteCount, remaining, setEvents, handleVars,
                   teardown, loopVars, signalled>>

\* line 445, then back to the top of while (true)
ReleaseBuffer ==
    /\ pc = "release"
    /\ outstanding' = outstanding - 1
    /\ pc' = "getbuffer"
    /\ UNCHANGED <<exitVars, g_running, activationVars, formatVars,
                   sessionVars, outputVars, numAcquired, numFrames, silent,
                   byteCount, remaining, bufEmitted, setEvents, handleVars,
                   teardown, loopVars, signalled>>

(***************************************************************************)
(* Cleanup, lines 451-459.                                                 *)
(***************************************************************************)
\* the next statement of lines 453-456; after the last one, return 0
Cleanup ==
    /\ pc = "cleanup"
    /\ LET op == CleanupOrder[Len(teardown) + 1]
       IN  /\ teardown' = Append(teardown, op)
           /\ IF op = "Stop"
              THEN calls' = Called("Stop") /\ UNCHANGED released
              ELSE released' = Release({op}) /\ UNCHANGED calls
    /\ IF Len(teardown) + 1 = Len(CleanupOrder)
       THEN pc' = "exited" /\ exitCode' = 0
       ELSE UNCHANGED <<pc, exitCode>>
    /\ UNCHANGED <<failStage, g_running, activationVars, formatVars, startOk,
                   loopEntered, outputVars, bufferVars, setEvents, acquired,
                   loopVars, signalled>>

ControlThread ==
    \/ CheckArgs
    \/ CoInit
    \/ Activate
    \/ Wait_Wake
    \/ Wait_Read
    \/ GetMixFormat
    \/ Initialize
    \/ SetEventHandle
    \/ GetService
    \/ WriteHeader
    \/ Start
    \/ LoopTest
    \/ WaitEvent
    \/ GetBuffer
    \/ ReleaseZero
    \/ SilentChunk
    \/ SilentDone
    \/ WritePcm
    \/ ReleaseBuffer
    \/ Cleanup

Worker ==
    \/ ActivateCompleted_Store
    \/ ActivateCompleted_Signal

Next ==
    \/ ControlThread
    \/ Worker
    \/ CtrlHandler

Spec == Init /\ [][Next]_vars

\* the control thread and the platform worker keep running while they can
LiveSpec == Init /\ [][Next]_vars /\ WF_vars(ControlThread) /\ WF_vars(Worker)

(***************************************************************************)
(* Properties.                                                             *)
(***************************************************************************)
\* the control thread is in the capture loop, between two buffers
BetweenBuffers == pc \in {"loop", "waitev", "getbuffer", "cleanup"}

\* the control thread holds a buffer it acquired with frames in it
InBuffer == pc \in {"silent", "pcm", "release"}

\* C1: the header is the first write of the run, it is written exactly once
\* and in full before Start is called and before any sample byte, and no
\* capture-loop write precedes it.
C1_HeaderFirst ==
    /\ headerWrites <= 1
    /\ firstWrite \in {"none", "header"}
    /\ (firstWrite = "none" => hdrBytes = 0 /\ sampleBytes = 0)
    /\ (calls["Start"] > 0 => headerWrites = 1 /\ hdrBytes = HeaderSize)
    /\ (sampleBytes > 0 \/ loopEntered \/ InBuffer
          => headerWrites = 1 /\ hdrBytes = HeaderSize /\ startOk)

C1_Witness ==
    /\ firstWrite = "header"
    /\ headerWrites = 1
    /\ startOk
    /\ sampleBytes > 0

\* C2: once a capture-loop write has returned <= 0 the flag is cleared and,
\* after the failing buffer is released, GetBuffer is not called again.
C2_NoAcquireAfterWriteFailure ==
    /\ [](writeFailed => ~g_running)
    /\ [][writeFailed => ~(pc = "getbuffer" /\ pc' # "getbuffer")]_vars

\* C3: after a capture-loop write failure the process eventually leaves the
\* loop, calls Stop once and exits with code 0 (the endpoint hands out at
\* most MaxBuffers buffers, so every drain ends).
C3_WriteFailureTerminates ==
    writeFailed ~> (pc = "exited" /\ exitCode = 0 /\ calls["Stop"] = 1)

C3_Witness ==
    /\ writeFailed
    /\ pc = "exited"
    /\ exitCode = 0
    /\ calls["Stop"] = 1

\* C4: a mix-format query that fails with a status other than "not
\* implemented" does not use the fallback: the session exits with code 1,
\* Initialize is never called and nothing is written.
C4_OtherFailureAborts ==
    (calls["GetMixFormat"] = 1 /\ FAILED(mixHr) /\ mixHr # E_NOTIMPL)
       => /\ ~usingFallback
          /\ calls["Initialize"] = 0
          /\ headerWrites = 0
          /\ pc = "exited"
          /\ exitCode = 1

\* C5: when the mix-format query fails with "not implemented" the format is
\* the fixed fallback (48000 Hz, 2 channels, 32 bits, float, block alignment
\* 8, 384000 bytes per second), the header is (48000, 2, 32, 3), the same
\* as for a successful query of 48000/2/32/float, and setup goes on to
\* Initialize, and to Start unless a later setup step fails.
C5_NotImplementedFallback ==
    (calls["GetMixFormat"] = 1 /\ mixHr = E_NOTIMPL)
       => /\ usingFallback
          /\ waveFormat.nSamplesPerSec = 48000
          /\ waveFormat.nChannels = 2
          /\ waveFormat.wBitsPerSample = 32
          /\ waveFormat.nBlockAlign = 8
          /\ waveFormat.nBlockAlign
               = waveFormat.nChannels * (waveFormat.wBitsPerSample \div 8)
          /\ waveFormat.nAvgBytesPerSec = 48000 * 8
          /\ waveFormat.nAvgBytesPerSec
               = waveFormat.nSamplesPerSec * waveFormat.nBlockAlign
          /\ header = [sampleRate |-> 48000, channels |-> 2,
                       bitsPerSample |-> 32, formatTag |-> 3]
          /\ header = HeaderOf(WaveFormat(WAVE_FORMAT_IEEE_FLOAT, 2, 48000,
                                          32, 8, 384000, 0, 0))
          /\ (pc = "exited" => calls["Initialize"] = 1)
          /\ (pc = "exited" /\ failStage \notin {"initialize", "seteventhandle",
                                                 "getservice", "header"}
                => calls["Start"] = 1)

C5_Witness ==
    /\ mixHr = E_NOTIMPL
    /\ usingFallback
    /\ headerWrites = 1
    /\ hdrBytes = HeaderSize
    /\ startOk

\* C6: a silent buffer of n > 0 frames puts exactly n x frameSize bytes on
\* the data channel (stated for the buffers during which the flag stayed
\* set, so that no write failed and no shutdown signal arrived).
C6_SilentExactLength ==
    (pc = "release" /\ silent /\ g_running) => bufEmitted = numFrames * frameSize

\* C7: between buffers and at exit the sample bytes accepted by the data
\* channel are a whole number of frames (stated for the runs in which every
\* write accepted all the bytes it was given, and for the formats whose
\* frame size is the block alignment).
C7_WholeFrames ==
    (/\ startOk
     /\ BetweenBuffers \/ pc = "exited"
     /\ ~writeFailed /\ ~shortWrite
     /\ frameSize = waveFormat.nBlockAlign)
       => sampleBytes % frameSize = 0

\* C8: the exit code is 0 exactly when Start succeeded; every setup failure
\* gives exit code 1 and the capture loop is never entered.
C8_ExitCode ==
    /\ (pc # "exited" => exitCode = -1 /\ failStage = "none")
    /\ (loopEntered => startOk)
    /\ (pc = "exited"
          => /\ exitCode \in {0, 1}
             /\ (exitCode = 0 <=> startOk)
             /\ (exitCode = 1 <=> failStage # "none")
             /\ (exitCode = 1 => ~loopEntered /\ calls["Stop"] = 0))

C8_Witness ==
    /\ pc = "exited"
    /\ failStage = "start"
    /\ exitCode = 1
    /\ hdrBytes = HeaderSize

\* C9: when activation fails (the request fails, the completion status is a
\* failure, the reference is absent, or the audio-client query fails or
\* yields nothing) nothing is written, no format query and no Initialize is
\* issued, and the process exits with code 1.
ActivationFailed ==
    \/ FAILED(hrAsync)
    \/ /\ cbPc = "done"
       /\ pc \notin {"wait", "waitRead"}
       /\ (FAILED(m_hrActivate) \/ ~m_pActivated \/ FAILED(hrQI) \/ ~audioClient)

C9_ActivationFailure ==
    ActivationFailed
       => /\ pc = "exited"
          /\ exitCode = 1
          /\ headerWrites = 0
          /\ hdrBytes = 0
          /\ sampleBytes = 0
          /\ calls["GetMixFormat"] = 0
          /\ calls["Initialize"] = 0

C9_Witness ==
    /\ cbPc = "done"
    /\ ~FAILED(m_hrActivate)
    /\ m_pActivated
    /\ FAILED(hrQI)
    /\ pc = "exited"
    /\ exitCode = 1

\* C10: at most one buffer is outstanding; none is outstanding when
\* GetBuffer is called or the loop is left, and exactly one is whenever
\* ReleaseBuffer is called.
C10_AcquireReleasePaired ==
    /\ outstanding \in {0, 1}
    /\ (pc \in {"releaseZero", "silent", "pcm", "release"} => outstanding = 1)
    /\ (BetweenBuffers \/ pc = "exited" => outstanding = 0)

C10_Witness ==
    /\ pc = "getbuffer"
    /\ writeFailed
    /\ numAcquired >= 1
    /\ outstanding = 0



\* the control thread has read m_hrActivate and m_pActivated (line 168)
FieldsRead ==
    /\ pc \notin {"start", "coinit", "activate", "wait", "waitRead"}
    /\ failStage \notin {"usage", "coinit", "activate"}

\* C11: the completion callback stores both result fields before it signals
\* the event and signals it exactly once; in every interleaving the control
\* thread reads the fields only after the callback has finished writing
\* them, so what it acted on is what the callback stored.
C11_Handshake ==
    /\ setEvents <= 1
    /\ (setEvents = 1 <=> cbPc = "done")
    /\ (m_event => cbPc = "done")
    /\ (pc = "waitRead" => cbPc = "done")
    /\ (FieldsRead =>
          /\ cbPc = "done"
          /\ hrWait = WaitResult(m_hrActivate, m_pActivated, hrQI)
          /\ (audioClient => m_pActivated /\ ~FAILED(m_hrActivate)))

C11_Witness ==
    /\ pc = "getmix"
    /\ cbPc = "done"
    /\ setEvents = 1
    /\ m_pActivated
    /\ audioClient

\* the teardown order the capture loop's exit is to follow
TeardownSteps == <<"Stop", "captureClient", "audioClient", "captureEvent">>

\* C12: on every exit from the capture loop the teardown is, in this order
\* and each step exactly once, Stop, release of the capture interface,
\* release of the audio client, close of the synchronisation event; once
\* Stop has been called there is no GetBuffer, ReleaseBuffer or data write.
C12_TeardownOrder ==
    /\ Len(teardown) <= Len(TeardownSteps)
    /\ teardown = SubSeq(TeardownSteps, 1, Len(teardown))
    /\ (pc = "cleanup" => Len(teardown) < Len(TeardownSteps))
    /\ (pc = "exited" /\ loopEntered => teardown = TeardownSteps)
    /\ (teardown # <<>> =>
          /\ calls["Stop"] = 1
          /\ pc \in {"cleanup", "exited"}
          /\ outstanding = 0)
    /\ (calls["Stop"] >= 1 => teardown # <<>>)
    /\ (Len(teardown) >= 2 <=> released["captureClient"] = 1 /\ startOk)
    /\ (Len(teardown) >= 3 <=> released["audioClient"] = 1 /\ startOk)
    /\ (Len(teardown) >= 4 <=> released["captureEvent"] = 1 /\ startOk)

C12_Witness ==
    /\ pc = "exited"
    /\ teardown = TeardownSteps
    /\ numAcquired >= 1
    /\ sampleBytes > 0

\* C13: on every exit path, setup failure or loop exit, each handle acquired
\* so far (completion handler, async operation, audio client,
\* synchronisation event, capture interface) has been released exactly once
\* by process exit; none is released twice or before it was acquired.
C13_HandlesReleasedOnce ==
    /\ \A h \in Handles : released[h] <= acquired[h] /\ acquired[h] <= 1
    /\ (pc = "exited" => \A h \in Handles : released[h] = acquired[h])

C13_Witness ==
    /\ pc = "exited"
    /\ failStage = "getservice"
    /\ acquired["handler"] = 1 /\ released["handler"] = 1
    /\ acquired["captureEvent"] = 1 /\ released["captureEvent"] = 1
    /\ acquired["captureClient"] = 0

\* the control thread is inside the drain of lines 412-446
Draining == pc \in {"getbuffer", "releaseZero", "silent", "pcm", "release"}

\* C14: an iteration whose wait ends in timeout moves no data: no GetBuffer,
\* no ReleaseBuffer, no data write, the Shutdown Flag and the output stream
\* unchanged; control goes straight back to the test of the flag.
C14_TimeoutMovesNothing ==
    /\ [](Draining => waitResult = "WAIT_OBJECT_0")
    /\ [][(pc = "waitev" /\ pc' # "waitev" /\ waitResult' = "WAIT_TIMEOUT") =>
            /\ pc' = "loop"
            /\ UNCHANGED <<g_running, exitVars, formatVars, sessionVars,
                           outputVars, bufferVars, getBufferCalled, handleVars,
                           teardown>>]_vars

C14_Witness ==
    /\ pc = "loop"
    /\ waitResult = "WAIT_TIMEOUT"
    /\ g_running
    /\ numAcquired >= 1
    /\ outstanding = 0

\* C15: the Shutdown Flag is monotone: it starts true, its only transitions
\* are from true to false, each is made by the control-signal handler or by
\* a failed data write in the capture loop, and once false it stays false.
C15_FlagMonotone ==
    /\ [](pc = "start" => g_running)
    /\ [](~g_running => signalled \/ writeFailed)
    /\ [][~g_running => ~g_running']_vars
    /\ [][(g_running /\ ~g_running') =>
            \/ signalled' /\ ~signalled /\ pc' = pc
            \/ pc \in {"silent", "pcm"} /\ writeFailed' /\ ~writeFailed]_vars

C15_Witness ==
    /\ ~g_running
    /\ signalled
    /\ ~writeFailed
    /\ pc = "waitev"

\* C16: once the control signal has cleared the Shutdown Flag of a started
\* capture, the loop ends and the endpoint is stopped; the first test of the
\* flag after the clear leaves the loop, so no iteration (and no wait) is
\* begun with the flag false.
C16_SignalStopsLoop ==
    /\ (signalled /\ startOk) ~>
          (pc = "exited" /\ exitCode = 0 /\ calls["Stop"] = 1)
    /\ [][(pc = "loop" /\ ~g_running /\ pc' # "loop") => pc' = "cleanup"]_vars
    /\ [][(pc' = "waitev" /\ pc # "waitev") => pc = "loop" /\ g_running]_vars

C16_Witness ==
    /\ signalled
    /\ ~writeFailed
    /\ getBufferCalled
    /\ sampleBytes > 0
    /\ pc = "exited"
    /\ calls["Stop"] = 1

\* C17: in every session that reaches the capture loop the frame size is
\* channels x (bitsPerSample / 8) of the values reported in the header and
\* is greater than 0, so a buffer with a frame count above 0 never makes a
\* zero-byte write request.
C17_FrameSizePositive ==
    startOk =>
      /\ frameSize = header.channels * (header.bitsPerSample \div 8)
      /\ frameSize > 0
      /\ (InBuffer => numFrames > 0 /\ byteCount = numFrames * frameSize
                                   /\ byteCount > 0)
      /\ (pc = "silent" /\ remaining > 0 => Chunk(remaining) > 0)

C17_Witness ==
    /\ pc = "pcm"
    /\ header.channels = 6
    /\ header.bitsPerSample = 32
    /\ frameSize = 24
    /\ numFrames = 2
    /\ byteCount = 48

\* C18: the frame size that sizes the capture loop's writes equals the block
\* alignment (bytes per frame) of the format the endpoint was initialised
\* with, for every format the negotiation can resolve, so a non-silent write
\* covers exactly the bytes of the frames the endpoint delivered.
C18_FrameSizeIsBlockAlign ==
    startOk =>
      /\ frameSize = waveFormat.nBlockAlign
      /\ (pc = "pcm" => byteCount = numFrames * waveFormat.nBlockAlign)

\* C19: endpoint calls follow the protocol order in every run: Initialize
\* before SetEventHandle before GetService before Start; GetBuffer and
\* ReleaseBuffer only between a successful Start and Stop; Stop exactly once
\* if and only if Start succeeded, also when the shutdown signal arrived
\* before the loop was entered, and then with no GetBuffer call and exit
\* code 0.
C19_ProtocolOrder ==
    /\ \A n \in CallNames : calls[n] <= 1
    /\ (calls["SetEventHandle"] >= 1 =>
          calls["Initialize"] = 1 /\ failStage # "initialize")
    /\ (calls["GetService"] >= 1 =>
          calls["SetEventHandle"] = 1 /\ failStage # "seteventhandle")
    /\ (calls["Start"] >= 1 =>
          calls["GetService"] = 1 /\ failStage # "getservice")
    /\ (startOk => calls["Start"] = 1 /\ failStage = "none")
    /\ (Draining \/ getBufferCalled \/ numAcquired > 0 => startOk)
    /\ (Draining \/ outstanding > 0 => calls["Stop"] = 0)
    /\ (calls["Stop"] >= 1 => startOk)
    /\ (pc = "exited" => (calls["Stop"] = 1 <=> startOk))
    /\ (pc = "exited" /\ startOk /\ waitResult = "none" =>
          ~getBufferCalled /\ numAcquired = 0 /\ exitCode = 0)

C19_Witness ==
    /\ pc = "exited"
    /\ startOk
    /\ signalled
    /\ waitResult = "none"
    /\ ~getBufferCalled
    /\ calls["Stop"] = 1
    /\ exitCode = 0
====
